---- MODULE Spec2Model ----
(***************************************************************************)
(* Purchase-verification workflow of the store bot (src/main.py).          *)
(*                                                                         *)
(* Python runs a handler without interruption from one `await` to the      *)
(* next, so every action below is one such stretch of a handler: it starts *)
(* when the awaited call of the previous stretch completes (or raises) and *)
(* ends when the next await has been issued.  The two Roblox API functions *)
(* use the blocking `requests` library: they run inside a stretch.         *)
(***************************************************************************)
EXTENDS Integers, Sequences, FiniteSets, TLC

\* ---------------------------------------------------------------- bounds
\* accepted "I Bought It" presses per confirmation view
MaxRuns == 2
\* "Nevermind" handlers of one view that are in flight at the same time
MaxCancels == 1

\* ------------------------------------------------------- program constants
\* range(5): the attempts of the retry loop
MaxAttempts == 5
\* attempt < 4: the attempts after which a progress notice and a sleep follow
LastRetry == 4
\* Python's None, as the value of user_id
None == 0

\* ---------------------------------------------------------- small domains
Users == {"alice", "bob"}
\* the users who ask the bot for the store; the others are bystanders, who
\* write messages and press what they see
Shoppers == {"alice"}
Owner == "owner"
Actors == Users \cup {Owner}
\* the slots a PurchaseConfirmView can be created in, and the one slot of
\* the configurations with a single session
Sessions == {"s1", "s2"}
OneSession == {"s1"}
RunIds == 1..MaxRuns
ItemNames == {"SkinA"}
GamepassIds == {"999", "111"}
FileUrls == {"https://files/skinA", "https://files/skinA2"}
Channels == {"dm", "guild"}
AccountIds == {123, 456}
\* message texts a user types, as sequences of characters
Bob == <<" ", "B", "o", "b", " ">>
BuyItem == <<"B", "u", "y", "i", "t", "e", "m">>
Contents == {Bob, BuyItem}
\* success or failure (an exception) of an awaited Discord call
Outcomes == {"ok", "raise"}

VARIABLES
    data_file,   \* DATA_FILE on disk: what load_data() would read
    menus,       \* the ItemSelectView menus that have been sent
    view,        \* the PurchaseConfirmView of each session slot
    runs,        \* the bought_button coroutines of each view
    cancels,     \* the cancel_button coroutines of each view
    obs,         \* observer: what has happened to each session
    last         \* observer: the notice issued most recently, or the
                 \* exception that has just left a handler

vars == <<data_file, menus, view, runs, cancels, obs, last>>

\* ------------------------------------------------------------ the catalog
ExampleItem ==
    [name |-> "SkinA", file_url |-> "https://files/skinA", gamepass_id |-> "999"]
NoItem == [name |-> "", file_url |-> "", gamepass_id |-> ""]
Items == [name : ItemNames, file_url : FileUrls, gamepass_id : GamepassIds]

\* load_data(): a missing or undecodable file reads as an empty catalog
load_data == IF data_file.kind = "json" THEN data_file.items ELSE <<>>

\* next((i for i in items if i["name"] == name), None); None is NoItem
RECURSIVE FindItem(_, _)
FindItem(items, name) ==
    IF items = <<>> THEN NoItem
    ELSE IF Head(items).name = name THEN Head(items)
    ELSE FindItem(Tail(items), name)

\* [item["name"] for item in items]: the options of a selection menu
OptionsOf(items) == [i \in 1..Len(items) |-> items[i].name]

\* ------------------------------------------------------------ text helpers
Whitespace == {" "}

\* str.strip(): drop leading, then trailing, whitespace
RECURSIVE LStrip(_)
LStrip(cs) ==
    IF cs # <<>> /\ Head(cs) \in Whitespace THEN LStrip(Tail(cs)) ELSE cs
RECURSIVE RStrip(_)
RStrip(cs) ==
    IF cs # <<>> /\ cs[Len(cs)] \in Whitespace
    THEN RStrip(SubSeq(cs, 1, Len(cs) - 1)) ELSE cs
Strip(cs) == RStrip(LStrip(cs))

\* str.lower() on the letters that occur in Contents
LowerChar(c) ==
    CASE c = "B" -> "b"
      [] OTHER  -> c
Lower(cs) == [i \in 1..Len(cs) |-> LowerChar(cs[i])]
IsBuyItem(cs) == Lower(cs) = <<"b", "u", "y", "i", "t", "e", "m">>

\* ------------------------------------------------------- Roblox API client
\* what the users endpoint may answer
\* what the users endpoint may answer: a transport failure (any
\* RequestException), no match, or the account of the name
LookupResponses ==
    {[kind |-> "error", id |-> None], [kind |-> "empty", id |-> None]}
    \cup [kind : {"data"}, id : AccountIds]

\* get_user_id_from_username(username): the id of the first match, else None
get_user_id_from_username(username, resp) ==
    IF resp.kind = "data" THEN resp.id ELSE None

\* a gamePassId of the listing: a JSON number, a JSON string, or absent
JsonIds ==
    {[t |-> "int", d |-> "999"], [t |-> "str", d |-> "999"],
     [t |-> "int", d |-> "111"], [t |-> "none", d |-> ""]}

\* str(x) of a JSON value
Str(x) == IF x.t = "none" THEN "None" ELSE x.d

\* what the game-passes endpoint may answer: a transport failure (any
\* RequestException), a body without "gamePasses", or a listing
OwnershipResponses ==
    {[kind |-> "error", passes |-> {}], [kind |-> "nokey", passes |-> {}]}
    \cup [kind : {"list"}, passes : {p \in SUBSET JsonIds : Cardinality(p) <= 2}]

\* the handler of RequestException returns True
OwnsOnError(user_id, gamepass_id, resp) ==
    \/ resp.kind = "error"
    \/ resp.kind = "list" /\ \E g \in resp.passes : Str(g) = gamepass_id

\* check_gamepass_ownership(user_id, gamepass_id): True when the listing of
\* user_id holds an entry whose id, as a string, equals gamepass_id
check_gamepass_ownership(user_id, gamepass_id, resp) ==
    /\ resp.kind = "list"
    /\ \E g \in resp.passes : Str(g) = gamepass_id

\* ------------------------------------------------------------------ state
\* a slot that holds no PurchaseConfirmView yet
NoView ==
    [exists |-> FALSE, item |-> NoItem, user |-> "", is_processing |-> FALSE,
     shown_disabled |-> FALSE]

\* a bought_button coroutine that has not started; `results` and `checked`
\* observe the ownership checks of the run, `transport_failed` that one of
\* them failed in transport, `notices` the progress notices that were sent
\* and `delays` the sleeps that were taken
IdleRun ==
    [pc |-> "idle", from |-> "", msg |-> <<>>, roblox_username |-> <<>>,
     user_id |-> None,
     attempt |-> 0, verified |-> FALSE, branch |-> "none", results |-> <<>>,
     checked |-> [user_id |-> None, gamepass_id |-> ""],
     transport_failed |-> FALSE, notices |-> 0, delays |-> 0]
DoneRun == [IdleRun EXCEPT !.pc = "done"]

NoObs ==
    [started |-> 0, files |-> 0, outcome |-> "none", cancelled |-> FALSE]
NoNotice == [sess |-> "", to |-> "", notice |-> "none", arg |-> 0, ref |-> ""]

\* a notice of session s to user u; a progress notice names the attempt,
\* the delivery carries the file reference
Notice(s, u, kind) ==
    [sess |-> s, to |-> u, notice |-> kind, arg |-> 0, ref |-> ""]
NoticeN(s, u, kind, n) ==
    [sess |-> s, to |-> u, notice |-> kind, arg |-> n, ref |-> ""]
FileNotice(s, u, url) ==
    [sess |-> s, to |-> u, notice |-> "file", arg |-> 0, ref |-> url]

Init ==
    /\ data_file \in {[kind |-> "missing", items |-> <<>>],
                      [kind |-> "json", items |-> <<ExampleItem>>]}
    /\ menus = {}
    /\ view = [s \in Sessions |-> NoView]
    /\ runs = [s \in Sessions |-> [r \in RunIds |-> IdleRun]]
    /\ cancels = [s \in Sessions |-> [send |-> 0, edit |-> 0]]
    /\ obs = [s \in Sessions |-> NoObs]
    /\ last = NoNotice

\* the positions of a run at which it exists and has not returned
ActivePcs ==
    {"send_verifying", "send_prompt", "wait", "got_msg", "notfound_send",
     "progress_send", "sleep", "retry_now", "verified_send", "file_send", "edit",
     "failed_send", "timeout_send", "error_send"}
Active(s, r) == runs[s][r].pc \in ActivePcs
ActiveRuns(s) == {r \in RunIds : Active(s, r)}

ClickableAlways(s) == view[s].exists
\* the buttons of a view can be pressed while the message shows them enabled
Clickable(s) == view[s].exists /\ ~view[s].shown_disabled

\* ------------------------------------------------------ ItemSelectView
\* line 120: interaction.user.id != self.user.id
SelectAuthorized(m, u) == u = m.user

\* on_message, lines 386-407, together with the dispatch of the message to
\* the bot.wait_for listeners of line 177 (check, lines 173-174): every
\* waiting run whose check accepts the message is resumed with it
CheckChannelOnly(s, author, channel) == channel = "dm"
check(s, author, channel) == author = view[s].user /\ channel = "dm"

Deliver(s, r, author, channel, content) ==
    IF runs[s][r].pc = "wait" /\ check(s, author, channel)
    THEN [runs[s][r] EXCEPT !.pc = "got_msg", !.from = author,
                            !.msg = content]
    ELSE runs[s][r]

on_message(author, channel, content) ==
    /\ runs' = [s \in Sessions |->
                 [r \in RunIds |-> Deliver(s, r, author, channel, content)]]
    /\ IF channel = "dm" /\ IsBuyItem(content)
       THEN IF load_data = <<>>
            THEN /\ last' = Notice("", author, "no_items")
                 /\ menus' = menus
            ELSE /\ menus' = menus \cup
                        {[user |-> author, options |-> OptionsOf(load_data)]}
                 /\ last' = Notice("", author, "menu")
       ELSE /\ menus' = menus
            /\ last' = last
    /\ UNCHANGED <<data_file, view, cancels, obs>>

\* the slots of `slots` in which no PurchaseConfirmView has been created
FreeSlots(slots) == {s \in slots : ~view[s].exists}

ChosenAsListed(m, choice) == [ExampleItem EXCEPT !.name = m.options[choice]]
\* lines 124-128: the chosen name is looked up in the catalog as it is now
Chosen(m, choice) == FindItem(load_data, m.options[choice])

\* ItemSelectView.select_callback, lines 119-146; o is the outcome of the
\* send of line 146, which is what puts the view in front of the buyer
select_callback(m, u, choice, o, slots) ==
    /\ m \in menus
    /\ choice \in 1..Len(m.options)
    /\ IF ~SelectAuthorized(m, u)
       THEN /\ last' = Notice("", u, "menu_not_for_you")
            /\ UNCHANGED view
       ELSE IF Chosen(m, choice) = NoItem
       THEN /\ last' = Notice("", u, "item_not_found")
            /\ UNCHANGED view
       ELSE /\ FreeSlots(slots) # {}
            /\ LET s == CHOOSE x \in FreeSlots(slots) : TRUE IN
               /\ last' = Notice(s, u, "purchase_prompt")
               /\ view' = IF o = "ok"
                          THEN [view EXCEPT ![s] =
                                 [exists |-> TRUE,
                                  item |-> Chosen(m, choice),
                                  user |-> m.user,
                                  is_processing |-> FALSE,
                                  shown_disabled |-> FALSE]]
                          ELSE view
    /\ UNCHANGED <<data_file, menus, runs, cancels, obs>>

\* ------------------------------------------------ PurchaseConfirmView
ItemOfCatalog(s) == FindItem(load_data, view[s].item.name)
\* self.item, lines 195 and 205-206: the item the view was created with
SessionItem(s) == view[s].item
BoughtAuthorizedAnyone(s, u) == TRUE
\* line 160: interaction.user.id != self.user.id
BoughtAuthorized(s, u) == u = view[s].user
BusyNever(s) == FALSE
\* line 164: self.is_processing
Busy(s) == view[s].is_processing
\* line 233: interaction.user.id != self.user.id
CancelAuthorized(s, u) == u = view[s].user
FalsyNever(user_id) == FALSE
\* line 184: not user_id
Falsy(user_id) == user_id = None
MoreAttemptsSix(attempt) == attempt + 1 < MaxAttempts + 1
\* line 192: range(5) has an attempt after this one
MoreAttempts(attempt) == attempt + 1 < MaxAttempts
NotifyRetryAlways(attempt) == TRUE
\* line 199: attempt < 4
NotifyRetry(attempt) == attempt < LastRetry

\* the session status a finished run leaves behind
StatusOf(branch) ==
    CASE branch = "delivered" -> "Delivered"
      [] branch = "timeout"   -> "TimedOut"
      [] OTHER                -> "Failed"

\* an exception inside the try block, lines 225-227: the generic notice is
\* sent next
Raise(run) ==
    [run EXCEPT !.pc = "error_send",
                !.branch = IF @ = "delivered" THEN @ ELSE "error"]

\* the finally block, lines 228-229, and the end of the coroutine
Finally(s, r) ==
    /\ runs' = [runs EXCEPT ![s][r] = DoneRun]
    /\ view' = [view EXCEPT ![s].is_processing = FALSE]
    /\ obs' = [obs EXCEPT ![s].outcome = StatusOf(runs[s][r].branch)]

\* bought_button, lines 159-170: the press by u, up to the first send
bought_button(s, u) ==
    /\ Clickable(s)
    /\ IF ~BoughtAuthorized(s, u)
       THEN /\ last' = Notice(s, u, "not_for_you")
            /\ UNCHANGED <<view, runs, obs>>
       ELSE IF Busy(s)
       THEN /\ last' = Notice(s, u, "in_progress")
            /\ UNCHANGED <<view, runs, obs>>
       ELSE /\ obs[s].started < MaxRuns
            /\ view' = [view EXCEPT ![s].is_processing = TRUE]
            /\ runs' = [runs EXCEPT ![s][obs[s].started + 1] =
                          [IdleRun EXCEPT !.pc = "send_verifying"]]
            /\ obs' = [obs EXCEPT ![s].started = @ + 1]
            /\ last' = Notice(s, u, "verifying")
    /\ UNCHANGED <<data_file, menus, cancels>>

\* an exception of line 170 or 171 is raised outside the try block: it
\* leaves bought_button ("unhandled"), the coroutine ends there and nothing
\* clears is_processing
Escape(s, r) ==
    /\ runs' = [runs EXCEPT ![s][r] = DoneRun]
    /\ obs' = [obs EXCEPT ![s].outcome = "Failed"]
    /\ last' = Notice(s, view[s].user, "unhandled")
    /\ UNCHANGED view

\* line 170 has completed; line 171 is sent
VerifyingSent(s, r, o) ==
    /\ runs[s][r].pc = "send_verifying"
    /\ IF o = "ok"
       THEN /\ runs' = [runs EXCEPT ![s][r].pc = "send_prompt"]
            /\ last' = Notice(s, view[s].user, "provide_username")
            /\ UNCHANGED <<view, obs>>
       ELSE Escape(s, r)
    /\ UNCHANGED <<data_file, menus, cancels>>

\* line 171 has completed; bot.wait_for of line 177 starts
PromptSent(s, r, o) ==
    /\ runs[s][r].pc = "send_prompt"
    /\ IF o = "ok"
       THEN /\ runs' = [runs EXCEPT ![s][r].pc = "wait"]
            /\ UNCHANGED <<view, obs, last>>
       ELSE Escape(s, r)
    /\ UNCHANGED <<data_file, menus, cancels>>

\* bot.wait_for without a timeout: the wait never expires
WaitForever(s, r) ==
    /\ runs[s][r].pc = "wait"
    /\ UNCHANGED vars

\* the timeout is caught by the generic handler of line 225
WaitTimeoutGeneric(s, r) ==
    /\ runs[s][r].pc = "wait"
    /\ runs' = [runs EXCEPT ![s][r].pc = "error_send",
                            ![s][r].branch = "error"]
    /\ last' = Notice(s, view[s].user, "error")
    /\ UNCHANGED <<data_file, menus, view, cancels, obs>>

\* line 177 raises asyncio.TimeoutError after 60 seconds; lines 223-224
WaitTimeout(s, r) ==
    /\ runs[s][r].pc = "wait"
    /\ runs' = [runs EXCEPT ![s][r].pc = "timeout_send",
                            ![s][r].branch = "timeout"]
    /\ last' = Notice(s, view[s].user, "timed_out")
    /\ UNCHANGED <<data_file, menus, view, cancels, obs>>

ReleasedAlways(run) == TRUE
\* line 204: the branch that releases the file
Released(run) == run.verified

\* lines 204-221: after the loop, the success notice or the failure notice
AfterLoop(run) ==
    IF Released(run) THEN [run EXCEPT !.pc = "verified_send"]
    ELSE [run EXCEPT !.pc = "failed_send", !.branch = "failed"]

\* one iteration of the loop of lines 192-202 and what follows it, up to the
\* next await: the ownership check of run.attempt, answered by resp; a
\* success breaks out of the loop, a failure is followed by the progress
\* notice or, without one, by the step to the next iteration ("retry_now")
Attempt(s, run, resp) ==
    LET gp    == SessionItem(s).gamepass_id
        owned == check_gamepass_ownership(run.user_id, gp, resp)
        seen  == [run EXCEPT
                    !.checked = [user_id |-> run.user_id, gamepass_id |-> gp],
                    !.results = Append(@, IF owned THEN "Owned"
                                          ELSE "NotOwned"),
                    !.transport_failed = @ \/ resp.kind = "error"]
    IN  IF owned THEN AfterLoop([seen EXCEPT !.verified = TRUE])
        ELSE IF NotifyRetry(run.attempt)
        THEN [seen EXCEPT !.pc = "progress_send"]
        ELSE IF MoreAttempts(run.attempt)
        THEN [seen EXCEPT !.pc = "retry_now"]
        ELSE AfterLoop(seen)

\* line 192: the loop takes its next iteration, or is exhausted
Iterate(s, run, resp) ==
    IF MoreAttempts(run.attempt)
    THEN Attempt(s, [run EXCEPT !.attempt = @ + 1], resp)
    ELSE AfterLoop(run)

\* the notice the run has issued on reaching its position
NoticeAt(s, run) ==
    CASE run.pc = "error_send"    -> Notice(s, view[s].user, "error")
      [] run.pc = "verified_send" -> Notice(s, view[s].user, "verified")
      [] run.pc = "progress_send" ->
             NoticeN(s, view[s].user, "progress", run.attempt + 1)
      [] run.pc = "failed_send"   -> Notice(s, view[s].user, "failed")
      [] run.pc = "notfound_send" -> Notice(s, view[s].user, "not_found")
      [] OTHER                    -> last

\* lines 178-202: the message has arrived; the name is stripped and looked
\* up, and the first ownership check follows in the same stretch
Resume(s, r, lresp, cresp) ==
    /\ runs[s][r].pc = "got_msg"
    /\ LET name == Strip(runs[s][r].msg)
           uid  == get_user_id_from_username(name, lresp)
           run  == [runs[s][r] EXCEPT !.roblox_username = name,
                                      !.user_id = uid]
           next == IF Falsy(uid)
                   THEN [run EXCEPT !.pc = "notfound_send",
                                    !.branch = "failed"]
                   ELSE Attempt(s, run, cresp)
       IN /\ runs' = [runs EXCEPT ![s][r] = next]
          /\ last' = NoticeAt(s, next)
    /\ UNCHANGED <<data_file, menus, view, cancels, obs>>

\* line 200 has completed; asyncio.sleep(5) of line 202 starts
ProgressSent(s, r, o) ==
    /\ runs[s][r].pc = "progress_send"
    /\ LET next == IF o = "ok"
                   THEN [runs[s][r] EXCEPT !.pc = "sleep", !.notices = @ + 1]
                   ELSE Raise(runs[s][r])
       IN /\ runs' = [runs EXCEPT ![s][r] = next]
          /\ last' = NoticeAt(s, next)
    /\ UNCHANGED <<data_file, menus, view, cancels, obs>>

\* the sleep of line 202 is over: the next iteration of the loop
NextAttempt(s, r, cresp) ==
    /\ runs[s][r].pc \in {"sleep", "retry_now"}
    /\ LET slept == IF runs[s][r].pc = "sleep"
                    THEN [runs[s][r] EXCEPT !.delays = @ + 1]
                    ELSE runs[s][r]
           next  == Iterate(s, slept, cresp)
       IN /\ runs' = [runs EXCEPT ![s][r] = next]
          /\ last' = NoticeAt(s, next)
    /\ UNCHANGED <<data_file, menus, view, cancels, obs>>

\* line 205 has completed; the file reference is sent, line 206
VerifiedSent(s, r, o) ==
    /\ runs[s][r].pc = "verified_send"
    /\ IF o = "ok"
       THEN /\ runs' = [runs EXCEPT ![s][r].pc = "file_send"]
            /\ last' = FileNotice(s, view[s].user, SessionItem(s).file_url)
       ELSE /\ runs' = [runs EXCEPT ![s][r] = Raise(@)]
            /\ last' = Notice(s, view[s].user, "error")
    /\ UNCHANGED <<data_file, menus, view, cancels, obs>>

\* line 206 has completed: the buyer has the file reference; every child is
\* disabled, lines 208-209, and the message is edited, line 210
FileSent(s, r, o) ==
    /\ runs[s][r].pc = "file_send"
    /\ IF o = "ok"
       THEN /\ runs' = [runs EXCEPT ![s][r].pc = "edit",
                                    ![s][r].branch = "delivered"]
            /\ obs' = [obs EXCEPT ![s].files = @ + 1]
            /\ last' = last
       ELSE /\ runs' = [runs EXCEPT ![s][r] = Raise(@)]
            /\ last' = Notice(s, view[s].user, "error")
            /\ obs' = obs
    /\ UNCHANGED <<data_file, menus, view, cancels>>

\* line 210 has completed: the message shows the disabled buttons
Edited(s, r, o) ==
    /\ runs[s][r].pc = "edit"
    /\ IF o = "ok"
       THEN /\ runs' = [runs EXCEPT ![s][r] = DoneRun]
            /\ view' = [view EXCEPT ![s].is_processing = FALSE,
                                    ![s].shown_disabled = TRUE]
            /\ obs' = [obs EXCEPT ![s].outcome = StatusOf(runs[s][r].branch)]
            /\ last' = last
       ELSE /\ runs' = [runs EXCEPT ![s][r] = Raise(@)]
            /\ last' = Notice(s, view[s].user, "error")
            /\ UNCHANGED <<view, obs>>
    /\ UNCHANGED <<data_file, menus, cancels>>

\* line 212 (the failure notice) or line 185 (the unknown-name notice, then
\* lines 186-187) has completed
FailureSent(s, r, o) ==
    /\ runs[s][r].pc \in {"failed_send", "notfound_send"}
    /\ IF o = "ok"
       THEN /\ Finally(s, r)
            /\ last' = last
       ELSE /\ runs' = [runs EXCEPT ![s][r] = Raise(@)]
            /\ last' = Notice(s, view[s].user, "error")
            /\ UNCHANGED <<view, obs>>
    /\ UNCHANGED <<data_file, menus, cancels>>

\* line 224 or line 227 has completed or raised: either way the finally
\* block runs; an exception of these sends leaves the handler
HandlerSent(s, r, o) ==
    /\ runs[s][r].pc \in {"timeout_send", "error_send"}
    /\ Finally(s, r)
    /\ last' = IF o = "ok" THEN last ELSE Notice(s, view[s].user, "unhandled")
    /\ UNCHANGED <<data_file, menus, cancels>>

\* cancel_button, lines 232-237: the press by u, up to the first send
cancel_button(s, u) ==
    /\ Clickable(s)
    /\ IF ~CancelAuthorized(s, u)
       THEN /\ last' = Notice(s, u, "not_for_you")
            /\ UNCHANGED <<cancels, obs>>
       ELSE /\ cancels[s].send + cancels[s].edit < MaxCancels
            /\ cancels' = [cancels EXCEPT ![s].send = @ + 1]
            /\ obs' = [obs EXCEPT ![s].cancelled = TRUE]
            /\ last' = Notice(s, u, "cancelled")
    /\ UNCHANGED <<data_file, menus, view, runs>>

\* line 237 has completed; every child is disabled, lines 239-240, and the
\* message is edited, line 241
CancelSent(s, o) ==
    /\ cancels[s].send > 0
    /\ cancels' = IF o = "ok"
                  THEN [cancels EXCEPT ![s].send = @ - 1, ![s].edit = @ + 1]
                  ELSE [cancels EXCEPT ![s].send = @ - 1]
    /\ last' = IF o = "ok" THEN last
               ELSE Notice(s, view[s].user, "cancel_unhandled")
    /\ UNCHANGED <<data_file, menus, view, runs, obs>>

\* line 241 has completed: the message shows the disabled buttons
CancelEdited(s, o) ==
    /\ cancels[s].edit > 0
    /\ cancels' = [cancels EXCEPT ![s].edit = @ - 1]
    /\ view' = IF o = "ok" THEN [view EXCEPT ![s].shown_disabled = TRUE]
               ELSE view
    /\ last' = IF o = "ok" THEN last
               ELSE Notice(s, view[s].user, "cancel_unhandled")
    /\ UNCHANGED <<data_file, menus, runs, obs>>

\* ------------------------------------------------------ owner commands
\* what becomes of DATA_FILE in save_data, lines 44-52: it is written, or
\* it cannot be opened and stays as it was, or the write breaks off and
\* leaves a file that load_data cannot decode
SaveOutcomes == {"ok", "unopened", "truncated"}

save_data(items, o) ==
    CASE o = "ok"        -> [kind |-> "json", items |-> items]
      [] o = "unopened"  -> data_file
      [] o = "truncated" -> [kind |-> "missing", items |-> <<>>]

\* lines 253, 294, 331, 359: interaction.user.id != interaction.guild.owner_id
IsOwner(u) == u = Owner

\* any(item["name"] == item_name for item in data["items"])
HasItem(items, name) == \E i \in 1..Len(items) : items[i].name = name

\* lines 300-309: the first item of that name, with the fields given
EditFirst(items, name, new_file, new_gamepass_id) ==
    LET k == CHOOSE i \in 1..Len(items) :
                 /\ items[i].name = name
                 /\ \A j \in 1..(i - 1) : items[j].name # name
    IN  [items EXCEPT
           ![k].file_url = IF new_file # "" THEN new_file ELSE @,
           ![k].gamepass_id =
               IF new_gamepass_id # "" THEN new_gamepass_id ELSE @]

\* line 338: [i for i in data["items"] if i["name"] != item_name]
RECURSIVE Without(_, _)
Without(items, name) ==
    IF items = <<>> THEN <<>>
    ELSE IF Head(items).name = name THEN Without(Tail(items), name)
    ELSE <<Head(items)>> \o Without(Tail(items), name)

\* The replies of the owner's commands go to the guild channel the command
\* was given in; `last` observes the store's side and leaves them out.

\* upload, lines 252-282
upload(u, item_name, file_url, gamepass_id, o) ==
    /\ data_file' =
          IF ~IsOwner(u) \/ HasItem(load_data, item_name) THEN data_file
          ELSE save_data(Append(load_data,
                                [name |-> item_name, file_url |-> file_url,
                                 gamepass_id |-> gamepass_id]), o)
    /\ UNCHANGED <<menus, view, runs, cancels, obs, last>>

\* edit, lines 292-324; an option that is not given is ""
edit(u, item_name, new_file, new_gamepass_id, o) ==
    /\ data_file' =
          IF ~IsOwner(u) \/ ~HasItem(load_data, item_name) THEN data_file
          ELSE save_data(EditFirst(load_data, item_name, new_file,
                                   new_gamepass_id), o)
    /\ UNCHANGED <<menus, view, runs, cancels, obs, last>>

\* delete, lines 330-353
delete(u, item_name, o) ==
    /\ data_file' =
          IF \/ ~IsOwner(u)
             \/ Len(Without(load_data, item_name)) = Len(load_data)
          THEN data_file
          ELSE save_data(Without(load_data, item_name), o)
    /\ UNCHANGED <<menus, view, runs, cancels, obs, last>>

\* showall, lines 358-382: the catalog is read and listed
showall(u) == UNCHANGED vars

\* ------------------------------------------------------------------ system
Next ==
    \/ \E a \in Users, c \in Channels, t \in Contents :
          /\ (c = "dm" /\ IsBuyItem(t)) => a \in Shoppers
          /\ on_message(a, c, t)
    \/ \E m \in menus, u \in Users, i \in 1..Cardinality(ItemNames),
          o \in Outcomes : select_callback(m, u, i, o, OneSession)
    \/ \E s \in Sessions, u \in Users : bought_button(s, u)
    \/ \E s \in Sessions, u \in Users : cancel_button(s, u)
    \/ \E s \in Sessions, r \in RunIds, o \in Outcomes : VerifyingSent(s, r, o)
    \/ \E s \in Sessions, r \in RunIds, o \in Outcomes : PromptSent(s, r, o)
    \/ \E s \in Sessions, r \in RunIds : WaitTimeout(s, r)
    \/ \E s \in Sessions, r \in RunIds, l \in LookupResponses,
          c \in OwnershipResponses : Resume(s, r, l, c)
    \/ \E s \in Sessions, r \in RunIds, o \in Outcomes : ProgressSent(s, r, o)
    \/ \E s \in Sessions, r \in RunIds, c \in OwnershipResponses :
          NextAttempt(s, r, c)
    \/ \E s \in Sessions, r \in RunIds, o \in Outcomes : VerifiedSent(s, r, o)
    \/ \E s \in Sessions, r \in RunIds, o \in Outcomes : FileSent(s, r, o)
    \/ \E s \in Sessions, r \in RunIds, o \in Outcomes : Edited(s, r, o)
    \/ \E s \in Sessions, r \in RunIds, o \in Outcomes : FailureSent(s, r, o)
    \/ \E s \in Sessions, r \in RunIds, o \in Outcomes : HandlerSent(s, r, o)
    \/ \E s \in Sessions, o \in Outcomes : CancelSent(s, o)
    \/ \E s \in Sessions, o \in Outcomes : CancelEdited(s, o)

Spec == Init /\ [][Next]_vars

\* the step run r of session s takes when the call it awaits ends
RunStep(s, r) ==
    /\ Active(s, r)
    /\ \/ \E o \in Outcomes : VerifyingSent(s, r, o)
       \/ \E o \in Outcomes : PromptSent(s, r, o)
       \/ WaitTimeout(s, r)
       \/ /\ runs[s][r].pc = "got_msg"
          /\ \E l \in LookupResponses, c \in OwnershipResponses :
                Resume(s, r, l, c)
       \/ \E o \in Outcomes : ProgressSent(s, r, o)
       \/ /\ runs[s][r].pc \in {"sleep", "retry_now"}
          /\ \E c \in OwnershipResponses : NextAttempt(s, r, c)
       \/ \E o \in Outcomes : VerifiedSent(s, r, o)
       \/ \E o \in Outcomes : FileSent(s, r, o)
       \/ \E o \in Outcomes : Edited(s, r, o)
       \/ \E o \in Outcomes : FailureSent(s, r, o)
       \/ \E o \in Outcomes : HandlerSent(s, r, o)

\* The event loop resumes a coroutine whose awaited call has completed or
\* raised; every send, edit and API call returns or raises, asyncio.sleep(5)
\* ends, and bot.wait_for(timeout=60.0) returns a message or expires.
\* Nothing obliges a user to write or to press anything.
Fairness == \A s \in Sessions, r \in RunIds : WF_vars(RunStep(s, r))

FairSpec == Init /\ [][Next]_vars /\ Fairness

\* The two configurations below have more of the store in them (the
\* owner's commands, a second session) and less of its surroundings: the
\* API answers with a listing of at most one gamepass, each view starts
\* one verification run and, with two sessions, Discord accepts every call.
Accepted == {"ok"}
SomeLookups == {l \in LookupResponses : l.kind = "data" => l.id = 123}
SomeListings ==
    {c \in OwnershipResponses : c.kind = "list" /\ Cardinality(c.passes) <= 1}
FirstPress(s, u) ==
    (BoughtAuthorized(s, u) /\ ~Busy(s)) => obs[s].started = 0
\* those who give commands in the guild: the owner and somebody else
Commanders == {Owner, "bob"}

\* One buyer with one session, and the owner's commands on the catalog.
CatalogNext ==
    \/ \E a \in Shoppers, t \in Contents : on_message(a, "dm", t)
    \/ \E m \in menus, u \in Shoppers, i \in 1..Cardinality(ItemNames),
          o \in Outcomes : select_callback(m, u, i, o, OneSession)
    \/ \E s \in Sessions, u \in Shoppers :
          FirstPress(s, u) /\ bought_button(s, u)
    \/ \E s \in Sessions, r \in RunIds, o \in Outcomes : VerifyingSent(s, r, o)
    \/ \E s \in Sessions, r \in RunIds, o \in Outcomes : PromptSent(s, r, o)
    \/ \E s \in Sessions, r \in RunIds : WaitTimeout(s, r)
    \/ \E s \in Sessions, r \in RunIds, l \in SomeLookups,
          c \in SomeListings : Resume(s, r, l, c)
    \/ \E s \in Sessions, r \in RunIds, o \in Outcomes : ProgressSent(s, r, o)
    \/ \E s \in Sessions, r \in RunIds, c \in SomeListings :
          NextAttempt(s, r, c)
    \/ \E s \in Sessions, r \in RunIds, o \in Outcomes : VerifiedSent(s, r, o)
    \/ \E s \in Sessions, r \in RunIds, o \in Outcomes : FileSent(s, r, o)
    \/ \E s \in Sessions, r \in RunIds, o \in Outcomes : Edited(s, r, o)
    \/ \E s \in Sessions, r \in RunIds, o \in Outcomes : FailureSent(s, r, o)
    \/ \E s \in Sessions, r \in RunIds, o \in Outcomes : HandlerSent(s, r, o)
    \/ \E u \in Commanders, n \in ItemNames, f \in FileUrls,
          g \in GamepassIds, o \in SaveOutcomes : upload(u, n, f, g, o)
    \/ \E u \in Commanders, n \in ItemNames, f \in FileUrls \cup {""},
          g \in GamepassIds \cup {""}, o \in SaveOutcomes : edit(u, n, f, g, o)
    \/ \E u \in Commanders, n \in ItemNames, o \in SaveOutcomes :
          delete(u, n, o)
    \/ \E u \in Commanders : showall(u)

CatalogSpec == Init /\ [][CatalogNext]_vars

\* Two sessions, of two buyers or of one, and no commands of the owner.
PairNext ==
    \/ \E a \in Users, t \in Contents : on_message(a, "dm", t)
    \/ \E m \in menus, u \in Users, i \in 1..Cardinality(ItemNames),
          o \in Accepted : select_callback(m, u, i, o, Sessions)
    \/ \E s \in Sessions, u \in Users :
          FirstPress(s, u) /\ bought_button(s, u)
    \/ \E s \in Sessions, r \in RunIds, o \in Accepted : VerifyingSent(s, r, o)
    \/ \E s \in Sessions, r \in RunIds, o \in Accepted : PromptSent(s, r, o)
    \/ \E s \in Sessions, r \in RunIds : WaitTimeout(s, r)
    \/ \E s \in Sessions, r \in RunIds, l \in SomeLookups,
          c \in SomeListings : Resume(s, r, l, c)
    \/ \E s \in Sessions, r \in RunIds, o \in Accepted : ProgressSent(s, r, o)
    \/ \E s \in Sessions, r \in RunIds, c \in SomeListings :
          NextAttempt(s, r, c)
    \/ \E s \in Sessions, r \in RunIds, o \in Accepted : VerifiedSent(s, r, o)
    \/ \E s \in Sessions, r \in RunIds, o \in Accepted : FileSent(s, r, o)
    \/ \E s \in Sessions, r \in RunIds, o \in Accepted : Edited(s, r, o)
    \/ \E s \in Sessions, r \in RunIds, o \in Accepted : FailureSent(s, r, o)
    \/ \E s \in Sessions, r \in RunIds, o \in Accepted : HandlerSent(s, r, o)

PairSpec == Init /\ [][PairNext]_vars

\* ------------------------------------------------------------ properties
\* a handler of the session is between two of its awaits
InFlight(s) == ActiveRuns(s) # {} \/ cancels[s].send + cancels[s].edit > 0

\* the step ends run r of session s
Finishes(s, r) == Active(s, r) /\ runs'[s][r].pc = "done"

\* what a run must have seen before the file reference may go out: the
\* message came from the buyer, its stripped text was looked up, and the
\* latest ownership check, made for the id the lookup gave and the gamepass
\* of the session's item, said Owned
Evidence(s, run) ==
    /\ run.from = view[s].user
    /\ run.roblox_username = Strip(run.msg)
    /\ run.user_id \in AccountIds
    /\ run.checked = [user_id |-> run.user_id,
                      gamepass_id |-> view[s].item.gamepass_id]
    /\ run.results # <<>>
    /\ run.results[Len(run.results)] = "Owned"

\* C1: the file reference is sent (and the send of it is issued) only by a
\* run whose ownership check for the account id resolved from the buyer's
\* message and the gamepass of the session's item returned Owned; no other
\* step of any handler sends it.
C1_FileOnlyAfterOwned ==
    /\ [](\A s \in Sessions, r \in RunIds :
            runs[s][r].pc \in {"file_send", "edit"} => Evidence(s, runs[s][r]))
    /\ [][\A s \in Sessions :
            obs'[s].files # obs[s].files =>
                /\ obs'[s].files = obs[s].files + 1
                /\ \E r \in RunIds : /\ runs[s][r].pc = "file_send"
                                     /\ Evidence(s, runs[s][r])]_vars

C1_Witness == \E s \in Sessions : obs[s].files = 1

\* C2: at most one verification run of a session is in flight; a run starts
\* only while is_processing is false and no run is in flight; a press while
\* is_processing is true is answered by the "in progress" notice and changes
\* nothing of the session.
C2_SingleFlight ==
    /\ [](\A s \in Sessions : Cardinality(ActiveRuns(s)) <= 1)
    /\ [][\A s \in Sessions :
            /\ obs'[s].started # obs[s].started =>
                   ~view[s].is_processing /\ ActiveRuns(s) = {}
            /\ (last' # last /\ last'.sess = s /\ last'.notice = "in_progress")
                   => /\ view[s].is_processing
                      /\ view'[s] = view[s] /\ runs'[s] = runs[s]
                      /\ cancels'[s] = cancels[s] /\ obs'[s] = obs[s]]_vars

C2_Witness ==
    \E s \in Sessions : /\ ActiveRuns(s) # {}
                        /\ last = Notice(s, view[s].user, "in_progress")

\* C3 (as claimed): over any sequence of events the file reference is sent
\* to the buyer at most once per session.
C3_SentAtMostOnce == \A s \in Sessions : obs[s].files <= 1

\* the ownership checks of a run so far
HasOwned(res) == \E k \in 1..Len(res) : res[k] = "Owned"
FirstOwned(res) ==
    CHOOSE k \in 1..Len(res) :
        res[k] = "Owned" /\ \A j \in 1..(k - 1) : res[j] # "Owned"

\* C4 (as claimed): a run that reaches the retry loop makes at most 5
\* ownership checks and none after the first Owned; with the first Owned at
\* position k it ends after exactly k checks as Delivered, and without an
\* Owned it ends after exactly 5 checks as Failed.
C4_RetryPolicy ==
    [][\A s \in Sessions, r \in RunIds :
        (Finishes(s, r) /\ runs[s][r].results # <<>>) =>
            LET res == runs[s][r].results IN
            /\ Len(res) <= 5
            /\ HasOwned(res) => /\ Len(res) = FirstOwned(res)
                                /\ obs'[s].outcome = "Delivered"
            /\ ~HasOwned(res) => /\ Len(res) = 5
                                 /\ obs'[s].outcome = "Failed"]_vars

\* C4 (amended): as C4, except that a run in which a send to the buyer
\* raises ends there as Failed, with the checks made so far; the count of
\* checks and the stop at the first Owned hold of every run.
C4_RetryPolicyAmended ==
    [][\A s \in Sessions, r \in RunIds :
        (Finishes(s, r) /\ runs[s][r].results # <<>>) =>
            LET res == runs[s][r].results
                raised == runs[s][r].branch = "error" IN
            /\ Len(res) <= 5
            /\ HasOwned(res) => Len(res) = FirstOwned(res)
            /\ raised => obs'[s].outcome = "Failed"
            /\ (~raised /\ HasOwned(res)) => obs'[s].outcome = "Delivered"
            /\ (~raised /\ ~HasOwned(res)) => /\ Len(res) = 5
                                              /\ obs'[s].outcome = "Failed"]_vars

C4_Witness ==
    \E s \in Sessions, r \in RunIds :
        /\ runs[s][r].results = <<"NotOwned", "NotOwned", "Owned">>
        /\ runs[s][r].pc = "edit"

\* C5 (as claimed): is_processing is true only while a run of the session
\* is in flight.
C5_FlagReleased ==
    \A s \in Sessions : view[s].is_processing => ActiveRuns(s) # {}

\* the session as the step leaves it, apart from notices
SessionUnchanged(s) ==
    /\ view'[s] = view[s] /\ runs'[s] = runs[s]
    /\ cancels'[s] = cancels[s] /\ obs'[s] = obs[s]

\* the step issues no notice that belongs to session s
NoNoticeFor(s) == last' = last \/ last'.sess # s

Pending(s) == view[s].exists /\ obs[s].started = 0

\* C7 (as claimed): a "Nevermind" of the buyer is taken up (cancellation
\* notice, controls disabled) only while the session is Pending, and a
\* session that was reported cancelled is not delivered afterwards.
C7_CancelOnlyFromPending ==
    [][\A s \in Sessions :
        /\ cancels'[s].send > cancels[s].send => Pending(s)
        /\ obs[s].cancelled => obs'[s].files = obs[s].files]_vars

\* C8: a step that answers a trigger of somebody who is not the buyer of a
\* session leaves that session as it was and issues nothing for it but the
\* rejection notice; a session is created only for the user the menu
\* belongs to.
C8_UnauthorizedNoEffect ==
    [][\A u \in Users :
        (last' # last /\ last'.to = u) =>
            /\ \A s \in Sessions :
                 (view[s].exists /\ u # view[s].user) =>
                     /\ SessionUnchanged(s)
                     /\ last'.sess = s => last'.notice = "not_for_you"
            /\ \A s \in Sessions :
                 (~view[s].exists /\ view'[s].exists) =>
                     /\ view'[s].user = u
                     /\ \E m \in menus : m.user = u
            /\ (\A m \in menus : m.user # u) =>
                 /\ view' = view
                 /\ last'.notice \in {"menu", "no_items", "not_for_you",
                                      "menu_not_for_you"}]_vars

C8_Witness ==
    \E s \in Sessions : /\ ActiveRuns(s) # {}
                        /\ last.sess = s /\ last.to # view[s].user
                        /\ last.notice = "not_for_you"

\* C9: when the lookup of the buyer's name gives no account id, the same
\* stretch issues the unknown-name notice to the buyer, and the run then
\* ends as Failed without an ownership check.
C9_NoMatchFails ==
    /\ [][\A s \in Sessions, r \in RunIds :
            (runs[s][r].pc = "got_msg" /\ runs'[s][r].pc # "got_msg"
                /\ runs'[s][r].user_id = None) =>
                /\ runs'[s][r].pc = "notfound_send"
                /\ runs'[s][r].results = <<>>
                /\ last' = Notice(s, view[s].user, "not_found")]_vars
    /\ [][\A s \in Sessions, r \in RunIds :
            (runs[s][r].pc = "notfound_send"
                /\ runs'[s][r].pc # "notfound_send") =>
                /\ runs'[s][r].results = <<>>
                /\ \/ Finishes(s, r) /\ obs'[s].outcome = "Failed"
                   \/ runs'[s][r].pc = "error_send"]_vars
    /\ [][\A s \in Sessions, r \in RunIds :
            (runs[s][r].pc = "error_send" /\ runs[s][r].user_id = None
                /\ runs'[s][r].pc # "error_send") =>
                /\ runs[s][r].results = <<>>
                /\ Finishes(s, r) /\ obs'[s].outcome = "Failed"]_vars

C9_Witness ==
    \E s \in Sessions, r \in RunIds :
        /\ runs[s][r].pc = "notfound_send"
        /\ last = Notice(s, view[s].user, "not_found")

\* C10: a wait that expires issues the timeout notice to the buyer, once;
\* the run then ends as TimedOut, having looked up no name and checked no
\* ownership, and no wait begins again without a new "I Bought It".
C10_TimeoutOnce ==
    /\ [](\A s \in Sessions, r \in RunIds :
            runs[s][r].pc = "timeout_send" =>
                /\ runs[s][r].roblox_username = <<>>
                /\ runs[s][r].user_id = None
                /\ runs[s][r].results = <<>>)
    /\ [][\A s \in Sessions, r \in RunIds :
            /\ (runs[s][r].pc = "wait"
                  /\ runs'[s][r].pc \notin {"wait", "got_msg"}) =>
                   /\ runs'[s][r].pc = "timeout_send"
                   /\ last' = Notice(s, view[s].user, "timed_out")
            /\ (runs[s][r].pc = "timeout_send"
                  /\ runs'[s][r].pc # "timeout_send") =>
                   /\ Finishes(s, r)
                   /\ obs'[s].outcome = "TimedOut"
                   /\ ~view'[s].is_processing
            /\ (runs[s][r].pc # "wait" /\ runs'[s][r].pc = "wait") =>
                   runs[s][r].pc = "send_prompt"]_vars
    /\ [][\A s \in Sessions :
            (last' # last /\ last'.sess = s /\ last'.notice = "timed_out") =>
                \E r \in RunIds : /\ runs[s][r].pc = "wait"
                                  /\ runs'[s][r].pc = "timeout_send"]_vars

C10_Witness ==
    \E s \in Sessions :
        /\ obs[s].outcome = "TimedOut" /\ ActiveRuns(s) = {}
        /\ last.notice \in {"timed_out", "unhandled"}

\* C11 (as claimed): every failure of a verification run is caught and
\* reported inside bought_button, so that no exception of a run leaves the
\* handler.
C11_NoErrorEscapes == last.notice # "unhandled"

\* the statuses a verification run can end in
RunStatuses == {"Delivered", "Failed", "TimedOut"}

\* C12: under FairSpec every verification run that has started comes to an
\* end, and the session then has one of the statuses Delivered, Failed and
\* TimedOut: no run waits or retries for ever.
C12_RunTerminates ==
    \A s \in Sessions, r \in RunIds :
        Active(s, r) ~> (runs[s][r].pc = "done" /\ obs[s].outcome \in RunStatuses)

C12_Witness ==
    \E s \in Sessions :
        /\ runs[s][1].pc = "done" /\ obs[s].outcome = "Failed"
        /\ last = Notice(s, view[s].user, "failed")

\* the step makes an ownership check in run r of session s
Checks(s, r) ==
    Len(runs'[s][r].results) = Len(runs[s][r].results) + 1

\* the positions of a run after its ownership check said Owned
OwnedPcs == {"verified_send", "file_send", "edit"}

\* how the checks, the progress notices and the delays of a run follow one
\* another, apart from what follows the send of a progress notice
ProgressOrder ==
    /\ [](\A s \in Sessions, r \in RunIds :
            LET run == runs[s][r]
                k   == Len(run.results) IN
            /\ run.pc = "progress_send" =>
                   /\ k \in 1..LastRetry /\ run.results[k] = "NotOwned"
                   /\ run.notices = k - 1 /\ run.delays = k - 1
            /\ run.pc = "sleep" =>
                   /\ k \in 1..LastRetry
                   /\ run.notices = k /\ run.delays = k - 1
            /\ run.pc = "failed_send" =>
                   /\ k = MaxAttempts /\ ~HasOwned(run.results)
                   /\ run.notices = LastRetry /\ run.delays = LastRetry
            /\ run.pc \in OwnedPcs =>
                   /\ run.results[k] = "Owned"
                   /\ run.notices = k - 1 /\ run.delays = k - 1)
    /\ [][\A s \in Sessions, r \in RunIds :
            LET run == runs[s][r]
                k   == Len(runs'[s][r].results) IN
            /\ Checks(s, r) =>
                   /\ run.pc = IF k = 1 THEN "got_msg" ELSE "sleep"
                   /\ runs'[s][r].pc =
                          IF runs'[s][r].results[k] = "Owned" THEN "verified_send"
                          ELSE IF k < MaxAttempts THEN "progress_send"
                          ELSE "failed_send"
                   /\ runs'[s][r].pc = "progress_send" =>
                          last' = NoticeN(s, view[s].user, "progress", k)
            /\ (run.pc = "sleep" /\ runs'[s][r].pc # "sleep") => Checks(s, r)
            /\ (run.pc # "sleep" /\ runs'[s][r].pc = "sleep") =>
                   run.pc = "progress_send"
            /\ (run.pc # "progress_send" /\ runs'[s][r].pc = "progress_send")
                   => Checks(s, r)]_vars
    /\ [][\A s \in Sessions :
            (last' # last /\ last'.sess = s /\ last'.notice = "progress") =>
                \E r \in RunIds : /\ Checks(s, r)
                                  /\ runs'[s][r].pc = "progress_send"]_vars

\* C14 (as claimed): after each failed check numbered 1 to 4 the progress
\* notice naming that number is sent, once, and then one delay is taken
\* before the next check; after a failed check 5 and after an Owned check
\* neither follows; a run of 5 failed checks has 4 notices and 4 delays,
\* check, notice and delay alternating.
C14_ProgressThenDelay ==
    /\ ProgressOrder
    /\ [][\A s \in Sessions, r \in RunIds :
            (runs[s][r].pc = "progress_send"
                /\ runs'[s][r].pc # "progress_send") =>
                runs'[s][r].pc = "sleep"]_vars

\* C14 (amended): as C14, except that a progress notice whose send raises
\* is followed by no delay and no further check: the run goes to the
\* generic error notice and ends Failed.
C14_ProgressThenDelayOrError ==
    /\ ProgressOrder
    /\ [][\A s \in Sessions, r \in RunIds :
            (runs[s][r].pc = "progress_send"
                /\ runs'[s][r].pc # "progress_send") =>
                \/ runs'[s][r].pc = "sleep"
                \/ /\ runs'[s][r].pc = "error_send"
                   /\ runs'[s][r].results = runs[s][r].results
                   /\ runs'[s][r].delays = runs[s][r].delays]_vars
    /\ [][\A s \in Sessions, r \in RunIds :
            (runs[s][r].pc = "error_send" /\ runs'[s][r].pc # "error_send") =>
                Finishes(s, r) /\ obs'[s].outcome \in {"Failed", "Delivered"}]_vars

C14_Witness ==
    \E s \in Sessions, r \in RunIds :
        /\ runs[s][r].pc = "failed_send"
        /\ runs[s][r].notices = 4 /\ runs[s][r].delays = 4

\* the answer of an ownership check that failed in transport
ErrorResponse == [kind |-> "error", passes |-> {}]

\* the step is an ownership check of run r that fails in transport
TransportFails(s, r) ==
    \/ NextAttempt(s, r, ErrorResponse)
    \/ \E l \in LookupResponses :
          /\ ~Falsy(get_user_id_from_username(<<>>, l))
          /\ Resume(s, r, l, ErrorResponse)

\* C15: an ownership check that fails in transport counts as one NotOwned
\* check of the run: the run goes on to the progress notice, or to the
\* failure notice after the fifth check, never to the exception handler;
\* a run with such a check makes at most 5 checks, and when a later check
\* says Owned and the delivery goes through it ends Delivered.
C15_TransportFailureIsNotOwned ==
    /\ [][\A s \in Sessions, r \in RunIds :
            TransportFails(s, r) =>
                LET k == Len(runs'[s][r].results) IN
                /\ Checks(s, r)
                /\ runs'[s][r].results[k] = "NotOwned"
                /\ runs'[s][r].transport_failed
                /\ runs'[s][r].branch # "error"
                /\ runs'[s][r].pc = IF k < MaxAttempts THEN "progress_send"
                                    ELSE "failed_send"]_vars
    /\ [](\A s \in Sessions, r \in RunIds :
            runs[s][r].transport_failed =>
                /\ Len(runs[s][r].results) <= MaxAttempts
                /\ \E k \in 1..Len(runs[s][r].results) :
                       runs[s][r].results[k] = "NotOwned")
    /\ [][\A s \in Sessions, r \in RunIds :
            (runs[s][r].transport_failed /\ runs[s][r].pc = "edit"
                /\ Finishes(s, r)) => obs'[s].outcome = "Delivered"]_vars

C15_Witness ==
    \E s \in Sessions, r \in RunIds :
        /\ runs[s][r].transport_failed
        /\ runs[s][r].results = <<"NotOwned", "Owned">>
        /\ runs[s][r].pc = "edit"

\* C17 (as claimed): is_processing is true exactly while a verification
\* run of the session is under way (the buyer's name is awaited or being
\* verified), and false in every other state of the session.
C17_FlagIffRunning ==
    \A s \in Sessions : view[s].is_processing <=> ActiveRuns(s) # {}

\* the step is an event of the buyer of session s, or of the session
\* itself: a message of the buyer, a press of the buyer on the view of s,
\* or a step of a verification run of s
OwnEvent(s) ==
    \/ \E c \in Channels, t \in Contents : on_message(view[s].user, c, t)
    \/ bought_button(s, view[s].user)
    \/ \E r \in RunIds : RunStep(s, r)

\* C13: a session changes only by an event of its own buyer: whatever
\* another user writes, chooses or presses, and whatever the runs of other
\* sessions do, its view (item, buyer, is_processing), its runs (position,
\* attempt, results) and its outcome stay as they are; in particular a
\* message of another user does not end the wait of its run.
C13_BuyersIndependent ==
    [][\A s \in Sessions :
        (view[s].exists /\ ~SessionUnchanged(s)) => OwnEvent(s)]_vars

C13_Witness ==
    /\ view["s1"].exists /\ view["s2"].exists
    /\ view["s1"].user # view["s2"].user
    /\ runs["s1"][1].pc = "wait"
    /\ runs["s2"][1].pc = "got_msg"

\* C16: the view keeps the item it was created with, which is the item the
\* catalog held under the chosen name at that moment; every ownership check
\* of the session asks for the gamepass of that item and the delivery
\* carries its file reference, whatever the owner has done to the catalog
\* since; and no step of a session, a menu or a notice changes the catalog.
C16_ItemCaptured ==
    /\ [][\A s \in Sessions :
            /\ view[s].exists =>
                   /\ view'[s].exists
                   /\ view'[s].item = view[s].item
                   /\ view'[s].user = view[s].user
            /\ (~view[s].exists /\ view'[s].exists) =>
                   /\ view'[s].item # NoItem
                   /\ view'[s].item = FindItem(load_data, view'[s].item.name)
            /\ \A r \in RunIds :
                   Checks(s, r) =>
                       runs'[s][r].checked.gamepass_id = view[s].item.gamepass_id
            /\ (last' # last /\ last'.sess = s /\ last'.notice = "file") =>
                   last'.ref = view[s].item.file_url
            /\ obs'[s].files # obs[s].files =>
                   \E r \in RunIds : runs[s][r].pc = "file_send"]_vars
    /\ [][data_file' # data_file =>
            /\ \A s \in Sessions : SessionUnchanged(s)
            /\ menus' = menus /\ last' = last]_vars

C16_Witness ==
    \E s \in Sessions, r \in RunIds :
        /\ runs[s][r].pc = "file_send"
        /\ last = FileNotice(s, view[s].user, view[s].item.file_url)
        /\ runs[s][r].checked.gamepass_id = view[s].item.gamepass_id
        /\ HasItem(load_data, view[s].item.name)
        /\ FindItem(load_data, view[s].item.name).gamepass_id
               # view[s].item.gamepass_id
        /\ FindItem(load_data, view[s].item.name).file_url
               # view[s].item.file_url

\* C18: when one buyer has two sessions that both wait for the account
\* name, one message resumes at most one of them: no step takes the waiting
\* runs of two sessions of the same buyer out of the wait together.
C18_OneMessageOneSession ==
    [][\A s \in Sessions, t \in Sessions, r \in RunIds, q \in RunIds :
           ( /\ s # t
             /\ view[s].exists /\ view[t].exists
             /\ view[s].user = view[t].user
             /\ runs[s][r].pc = "wait" /\ runs[t][q].pc = "wait"
             /\ runs'[s][r].pc = "got_msg" ) =>
               runs'[t][q].pc = "wait"]_vars

\* C19: a choice from a menu whose item is no longer in the catalog is
\* answered with the 'Item not found' notice and changes nothing else: no
\* view is created, no run is started, nothing is checked; and whenever a
\* view is created, its item is the one the catalog holds under that name
\* at that moment.
C19_DeletedItemNotFound ==
    [][/\ \A m \in menus, i \in 1..Cardinality(ItemNames), o \in Outcomes :
            ( /\ i <= Len(m.options)
              /\ ~HasItem(load_data, m.options[i])
              /\ select_callback(m, m.user, i, o, OneSession) ) =>
                /\ last' = Notice("", m.user, "item_not_found")
                /\ UNCHANGED <<data_file, menus, view, runs, cancels, obs>>
       /\ \A s \in Sessions :
            (~view[s].exists /\ view'[s].exists) =>
                /\ HasItem(load_data, view'[s].item.name)
                /\ view'[s].item = FindItem(load_data, view'[s].item.name)
                /\ last' = Notice(s, view'[s].user, "purchase_prompt")
       /\ (last' # last /\ last'.notice = "item_not_found") =>
                UNCHANGED <<data_file, menus, view, runs, cancels, obs>>]_vars

C19_Witness ==
    /\ last.notice = "item_not_found"
    /\ \E m \in menus :
          /\ m.user = last.to
          /\ \E i \in 1..Len(m.options) : ~HasItem(load_data, m.options[i])
    /\ \A s \in Sessions : ~view[s].exists /\ ActiveRuns(s) = {}

====
